---- MODULE Spec2Model ----
(***************************************************************************)
(* HPD: hotplug detect state machine (src/hpd.h, which holds both the      *)
(* header and the driver source).                                          *)
(*                                                                         *)
(* Three threads of control touch one struct hpd_data:                     *)
(*   worker   - the workqueue thread running hpd_worker (one invocation at *)
(*              a time: the workqueue does not re-enter a work item),      *)
(*   notifier - a client thread inside hpd_set_pending_evt,                *)
(*   shutdown - the client thread inside hpd_shutdown (called once).       *)
(* The environment toggles the HPD line and lets the delayed-work timer    *)
(* expire.  Time is abstracted to the order of events; the delay of the    *)
(* scheduled callback is kept as data.                                     *)
(*                                                                         *)
(* The client driver is taken to implement every hook of struct hpd_ops,   *)
(* the optional ones (init, disable, shutdown) included, so hpd_disable    *)
(* is a call of ops->disable.                                              *)
(***************************************************************************)
EXTENDS Integers, FiniteSets, TLC

(* ------------------------------------------------------------------ *)
(* enum of states, hpd.h                                              *)
(* ------------------------------------------------------------------ *)
STATE_HPD_RESET == 0
STATE_PLUG == 1
STATE_CHECK_EDID == 2
STATE_DONE_DISABLED == 3
STATE_DONE_ENABLED == 4
STATE_WAIT_FOR_HPD_REASSERT == 5
STATE_RECHECK_EDID == 6
STATE_INIT_FROM_BOOTLOADER == 7
HPD_STATE_COUNT == 8

MAX_EDID_READ_ATTEMPTS == 5
HPD_STABILIZE_MS == 40
HPD_DROP_TIMEOUT_MS == 1500
CHECK_PLUG_STATE_DELAY_MS == 10
CHECK_EDID_DELAY_MS == 60

(* Bounds of the observation counters (they saturate, they never block). *)
MaxNotif == 2
MaxDisable == 2

States == 0 .. (HPD_STATE_COUNT - 1)
Delays == {-1, 0, CHECK_PLUG_STATE_DELAY_MS, HPD_STABILIZE_MS,
           CHECK_EDID_DELAY_MS, HPD_DROP_TIMEOUT_MS}
Threads == {"worker", "notifier"}

Min(a, b) == IF a < b THEN a ELSE b

VARIABLES
  state,            \* data->state
  pending_hpd_evt,  \* data->pending_hpd_evt
  shutdown,         \* data->shutdown
  edid_reads,       \* data->edid_reads
  lock,             \* data->lock: "free" or the thread holding it
  dwork,            \* data->dwork: [st, delay], st in idle / timer / queued
  canceling,        \* cancel_delayed_work_sync owns the work item
  hpd,              \* the HPD line, what ops->get_hpd_state returns
  pc,               \* position of worker, notifier and shutdown
  w_pending,        \* hpd_worker: local pending_hpd_evt
  cur_hpd,          \* hpd_worker: local cur_hpd
  status,           \* edid_recheck_state: local status
  tgt_state,        \* set_hpd_state: argument target_state
  resched_time,     \* sched_hpd_work: argument resched_time, per thread
  calls,            \* observation: collaborator calls of the running invocation
  last_out,         \* observation: the latest of disable / edid_ready
  att_reads,        \* observation: edid_read calls since edid_reads was zeroed
  att_dis,          \* observation: disable calls since edid_reads was zeroed
  n_notif,          \* observation: notifications since the last snapshot
  sd_retry,         \* observation: hpd_shutdown was called with a retry pending
  ever_disabled,    \* observation: disable was called since hpd_init
  unnotified        \* observation: the line changed after the latest notification

vars == <<state, pending_hpd_evt, shutdown, edid_reads, lock, dwork, canceling,
          hpd, pc, w_pending, cur_hpd, status, tgt_state, resched_time, calls,
          last_out, att_reads, att_dis, n_notif, sd_retry, ever_disabled,
          unnotified>>

data_vars == <<state, pending_hpd_evt, shutdown, edid_reads>>
obs_vars == <<calls, last_out, att_reads, att_dis>>
w_locals == <<w_pending, cur_hpd, status, tgt_state>>

ZeroCalls == [get_hpd_state |-> 0, disable |-> 0, edid_read |-> 0,
              edid_ready |-> 0, edid_recheck |-> 0]

DworkIdle == [st |-> "idle", delay |-> -1]

(* ------------------------------------------------------------------ *)
(* The delayed-work primitive, as the driver uses it                  *)
(* ------------------------------------------------------------------ *)

\* cancel_delayed_work: kills a pending callback (armed timer or queued work);
\* it neither waits for a running invocation nor touches a work item that
\* cancel_delayed_work_sync currently owns.
cancel_delayed_work(d) ==
  IF canceling THEN d ELSE DworkIdle

\* schedule_delayed_work: no effect if the work is already pending or owned by
\* a canceller; delay 0 queues the work at once, a positive delay arms the timer.
schedule_delayed_work(d, delay) ==
  IF d.st # "idle" \/ canceling THEN d
  ELSE IF delay = 0 THEN [st |-> "queued", delay |-> 0]
  ELSE [st |-> "timer", delay |-> delay]

(* ------------------------------------------------------------------ *)
(* Init: the state hpd_init leaves                                    *)
(* ------------------------------------------------------------------ *)
Init ==
  /\ state = STATE_INIT_FROM_BOOTLOADER
  /\ pending_hpd_evt = 0
  /\ shutdown = 0
  /\ edid_reads = 0
  /\ lock = "free"
  /\ dwork = DworkIdle
  /\ canceling = FALSE
  /\ hpd \in BOOLEAN
  /\ pc = [worker |-> "idle", notifier |-> "idle", shutdown |-> "idle"]
  /\ w_pending = 0
  /\ cur_hpd = FALSE
  /\ status = 0
  /\ tgt_state = STATE_HPD_RESET
  /\ resched_time = [worker |-> 0, notifier |-> 0]
  /\ calls = ZeroCalls
  /\ last_out = "none"
  /\ att_reads = 0
  /\ att_dis = 0
  /\ n_notif = 0
  /\ sd_retry = FALSE
  /\ ever_disabled = FALSE
  /\ unnotified = FALSE

(* ------------------------------------------------------------------ *)
(* The per-state handlers and handle_hpd_evt, as what one run decides: *)
(* the arguments of its set_hpd_state call (tgt, timeout; ret = the    *)
(* handler returns without calling set_hpd_state), the value it leaves *)
(* in edid_reads (fresh = it zeroed the counter) and the collaborator  *)
(* calls it made (get, dis, read, rdy, rechk).                         *)
(* ------------------------------------------------------------------ *)
Outcome(ret, tgt, timeout, er, fresh, get, dis, read, rdy, rechk) ==
  [ret |-> ret, tgt |-> tgt, timeout |-> timeout, edid_reads |-> er,
   fresh |-> fresh, get |-> get, dis |-> dis, read |-> read, rdy |-> rdy,
   rechk |-> rechk]

\* Mutant of hpd_reset_state: the teardown is missing (no hpd_disable).
hpd_reset_state_NoDisable(er) ==
  Outcome(FALSE, STATE_PLUG, CHECK_PLUG_STATE_DELAY_MS, er, FALSE, 0, 0, 0, 0, 0)

\* hpd_reset_state: disable, then check the plug state shortly.
hpd_reset_state(er) ==
  Outcome(FALSE, STATE_PLUG, CHECK_PLUG_STATE_DELAY_MS, er, FALSE, 0, 1, 0, 0, 0)

\* Mutant of hpd_plug_state: the unplugged branch forgets hpd_disable.
hpd_plug_state_NoDisable(h, er) ==
  IF h
  THEN Outcome(FALSE, STATE_CHECK_EDID, CHECK_EDID_DELAY_MS, 0, TRUE, 1, 0, 0, 0, 0)
  ELSE Outcome(FALSE, STATE_DONE_DISABLED, -1, er, FALSE, 1, 0, 0, 0, 0)

\* hpd_plug_state: h is what get_hpd_state returns.
hpd_plug_state(h, er) ==
  IF h
  THEN Outcome(FALSE, STATE_CHECK_EDID, CHECK_EDID_DELAY_MS, 0, TRUE, 1, 0, 0, 0, 0)
  ELSE Outcome(FALSE, STATE_DONE_DISABLED, -1, er, FALSE, 1, 1, 0, 0, 0)

\* Mutant of edid_check_state: the retry test is > instead of >=.
edid_check_state_OffByOne(h, ok, er) ==
  IF ~h
  THEN Outcome(FALSE, STATE_DONE_DISABLED, -1, er, FALSE, 1, 1, 0, 0, 0)
  ELSE IF ~ok
  THEN IF er + 1 > MAX_EDID_READ_ATTEMPTS
       THEN Outcome(FALSE, STATE_DONE_DISABLED, -1, er + 1, FALSE, 1, 1, 1, 0, 0)
       ELSE Outcome(FALSE, STATE_CHECK_EDID, CHECK_EDID_DELAY_MS, er + 1, FALSE,
                    1, 0, 1, 0, 0)
  ELSE Outcome(FALSE, STATE_DONE_ENABLED, -1, er, FALSE, 1, 0, 1, 1, 0)

\* Mutant of edid_check_state: the read is attempted before the line is
\* looked at, a drop is noticed only afterwards.
edid_check_state_ReadFirst(h, ok, er) ==
  IF ~h
  THEN Outcome(FALSE, STATE_DONE_DISABLED, -1, er, FALSE, 1, 1, 1, 0, 0)
  ELSE IF ~ok
  THEN IF er + 1 >= MAX_EDID_READ_ATTEMPTS
       THEN Outcome(FALSE, STATE_DONE_DISABLED, -1, er + 1, FALSE, 1, 1, 1, 0, 0)
       ELSE Outcome(FALSE, STATE_CHECK_EDID, CHECK_EDID_DELAY_MS, er + 1, FALSE,
                    1, 0, 1, 0, 0)
  ELSE Outcome(FALSE, STATE_DONE_ENABLED, -1, er, FALSE, 1, 0, 1, 1, 0)

\* Mutant of edid_check_state: a failed read is not counted
\* (data->edid_reads++ is missing), the retry goes on for ever.
edid_check_state_NoIncrement(h, ok, er) ==
  IF ~h
  THEN Outcome(FALSE, STATE_DONE_DISABLED, -1, er, FALSE, 1, 1, 0, 0, 0)
  ELSE IF ~ok
  THEN IF er >= MAX_EDID_READ_ATTEMPTS
       THEN Outcome(FALSE, STATE_DONE_DISABLED, -1, er, FALSE, 1, 1, 1, 0, 0)
       ELSE Outcome(FALSE, STATE_CHECK_EDID, CHECK_EDID_DELAY_MS, er, FALSE,
                    1, 0, 1, 0, 0)
  ELSE Outcome(FALSE, STATE_DONE_ENABLED, -1, er, FALSE, 1, 0, 1, 1, 0)

\* edid_check_state: h is what get_hpd_state returns, ok what edid_read
\* returns (edid_read is called only when h).
edid_check_state(h, ok, er) ==
  IF ~h
  THEN Outcome(FALSE, STATE_DONE_DISABLED, -1, er, FALSE, 1, 1, 0, 0, 0)
  ELSE IF ~ok
  THEN IF er + 1 >= MAX_EDID_READ_ATTEMPTS
       THEN Outcome(FALSE, STATE_DONE_DISABLED, -1, er + 1, FALSE, 1, 1, 1, 0, 0)
       ELSE Outcome(FALSE, STATE_CHECK_EDID, CHECK_EDID_DELAY_MS, er + 1, FALSE,
                    1, 0, 1, 0, 0)
  ELSE Outcome(FALSE, STATE_DONE_ENABLED, -1, er, FALSE, 1, 0, 1, 1, 0)

\* Mutant of wait_for_hpd_reassert_state: tears down at once instead of
\* leaving it to the RESET handler.
wait_for_hpd_reassert_state_Disable(er) ==
  Outcome(FALSE, STATE_HPD_RESET, 0, er, FALSE, 0, 1, 0, 0, 0)

\* wait_for_hpd_reassert_state: the grace window ran out.
wait_for_hpd_reassert_state(er) ==
  Outcome(FALSE, STATE_HPD_RESET, 0, er, FALSE, 0, 0, 0, 0, 0)

\* Mutant of edid_recheck_state: an unchanged EDID is not told from a changed
\* one (the status == 0 branch is missing).
edid_recheck_state_NoUnchanged(st, er) ==
  IF st = -1
  THEN IF er + 1 >= MAX_EDID_READ_ATTEMPTS
       THEN Outcome(FALSE, STATE_HPD_RESET, 0, er + 1, FALSE, 0, 0, 0, 0, 1)
       ELSE Outcome(FALSE, STATE_RECHECK_EDID, CHECK_EDID_DELAY_MS, er + 1, FALSE,
                    0, 0, 0, 0, 1)
  ELSE Outcome(FALSE, STATE_HPD_RESET, 0, er, FALSE, 0, 0, 0, 0, 1)

\* Mutant of edid_recheck_state: the retry test is > instead of >=.
edid_recheck_state_OffByOne(st, er) ==
  IF st = -1
  THEN IF er + 1 > MAX_EDID_READ_ATTEMPTS
       THEN Outcome(FALSE, STATE_HPD_RESET, 0, er + 1, FALSE, 0, 0, 0, 0, 1)
       ELSE Outcome(FALSE, STATE_RECHECK_EDID, CHECK_EDID_DELAY_MS, er + 1, FALSE,
                    0, 0, 0, 0, 1)
  ELSE IF st = 0
  THEN Outcome(FALSE, STATE_DONE_ENABLED, -1, er, FALSE, 0, 0, 0, 0, 1)
  ELSE Outcome(FALSE, STATE_HPD_RESET, 0, er, FALSE, 0, 0, 0, 0, 1)

\* Mutant of edid_recheck_state: a failed recheck is not counted
\* (data->edid_reads++ is missing).
edid_recheck_state_NoIncrement(st, er) ==
  IF st = -1
  THEN IF er >= MAX_EDID_READ_ATTEMPTS
       THEN Outcome(FALSE, STATE_HPD_RESET, 0, er, FALSE, 0, 0, 0, 0, 1)
       ELSE Outcome(FALSE, STATE_RECHECK_EDID, CHECK_EDID_DELAY_MS, er, FALSE,
                    0, 0, 0, 0, 1)
  ELSE IF st = 0
  THEN Outcome(FALSE, STATE_DONE_ENABLED, -1, er, FALSE, 0, 0, 0, 0, 1)
  ELSE Outcome(FALSE, STATE_HPD_RESET, 0, er, FALSE, 0, 0, 0, 0, 1)

\* edid_recheck_state: st is what edid_recheck returns (-1, 0 or 1).
edid_recheck_state(st, er) ==
  IF st = -1
  THEN IF er + 1 >= MAX_EDID_READ_ATTEMPTS
       THEN Outcome(FALSE, STATE_HPD_RESET, 0, er + 1, FALSE, 0, 0, 0, 0, 1)
       ELSE Outcome(FALSE, STATE_RECHECK_EDID, CHECK_EDID_DELAY_MS, er + 1, FALSE,
                    0, 0, 0, 0, 1)
  ELSE IF st = 0
  THEN Outcome(FALSE, STATE_DONE_ENABLED, -1, er, FALSE, 0, 0, 0, 0, 1)
  ELSE Outcome(FALSE, STATE_HPD_RESET, 0, er, FALSE, 0, 0, 0, 0, 1)

\* Mutant of handle_hpd_evt: the bounce branch (DONE_ENABLED, asserted) is
\* missing and falls into the generic restart.
handle_hpd_evt_NoBounce(s, cur, er) ==
  IF s = STATE_DONE_ENABLED /\ ~cur
  THEN Outcome(FALSE, STATE_WAIT_FOR_HPD_REASSERT, HPD_DROP_TIMEOUT_MS, er, FALSE,
               0, 0, 0, 0, 0)
  ELSE IF s = STATE_WAIT_FOR_HPD_REASSERT /\ cur
  THEN Outcome(FALSE, STATE_RECHECK_EDID, CHECK_EDID_DELAY_MS, 0, TRUE,
               0, 0, 0, 0, 0)
  ELSE IF s = STATE_INIT_FROM_BOOTLOADER /\ cur
  THEN Outcome(FALSE, STATE_PLUG, HPD_STABILIZE_MS, er, FALSE, 0, 0, 0, 0, 0)
  ELSE Outcome(FALSE, STATE_HPD_RESET, HPD_STABILIZE_MS, er, FALSE, 0, 0, 0, 0, 0)

\* Mutant of handle_hpd_evt: the reassert branch keeps the retry counter
\* (data->edid_reads = 0 is missing).
handle_hpd_evt_KeepCount(s, cur, er) ==
  IF s = STATE_DONE_ENABLED /\ ~cur
  THEN Outcome(FALSE, STATE_WAIT_FOR_HPD_REASSERT, HPD_DROP_TIMEOUT_MS, er, FALSE,
               0, 0, 0, 0, 0)
  ELSE IF s = STATE_WAIT_FOR_HPD_REASSERT /\ cur
  THEN Outcome(FALSE, STATE_RECHECK_EDID, CHECK_EDID_DELAY_MS, er, FALSE,
               0, 0, 0, 0, 0)
  ELSE IF s = STATE_DONE_ENABLED /\ cur
  THEN Outcome(TRUE, s, 0, er, FALSE, 0, 0, 0, 0, 0)
  ELSE IF s = STATE_INIT_FROM_BOOTLOADER /\ cur
  THEN Outcome(FALSE, STATE_PLUG, HPD_STABILIZE_MS, er, FALSE, 0, 0, 0, 0, 0)
  ELSE Outcome(FALSE, STATE_HPD_RESET, HPD_STABILIZE_MS, er, FALSE, 0, 0, 0, 0, 0)

\* Mutant of handle_hpd_evt: the INIT_FROM_BOOTLOADER branch is missing, a
\* takeover goes through HPD_RESET like any other event.
handle_hpd_evt_NoTakeover(s, cur, er) ==
  IF s = STATE_DONE_ENABLED /\ ~cur
  THEN Outcome(FALSE, STATE_WAIT_FOR_HPD_REASSERT, HPD_DROP_TIMEOUT_MS, er, FALSE,
               0, 0, 0, 0, 0)
  ELSE IF s = STATE_WAIT_FOR_HPD_REASSERT /\ cur
  THEN Outcome(FALSE, STATE_RECHECK_EDID, CHECK_EDID_DELAY_MS, 0, TRUE,
               0, 0, 0, 0, 0)
  ELSE IF s = STATE_DONE_ENABLED /\ cur
  THEN Outcome(TRUE, s, 0, er, FALSE, 0, 0, 0, 0, 0)
  ELSE Outcome(FALSE, STATE_HPD_RESET, HPD_STABILIZE_MS, er, FALSE, 0, 0, 0, 0, 0)

\* Mutant of handle_hpd_evt: a drop seen in DONE_ENABLED is ignored like a
\* bounce (the branch that starts the grace window is missing).
handle_hpd_evt_IgnoreDrop(s, cur, er) ==
  IF s = STATE_WAIT_FOR_HPD_REASSERT /\ cur
  THEN Outcome(FALSE, STATE_RECHECK_EDID, CHECK_EDID_DELAY_MS, 0, TRUE,
               0, 0, 0, 0, 0)
  ELSE IF s = STATE_DONE_ENABLED
  THEN Outcome(TRUE, s, 0, er, FALSE, 0, 0, 0, 0, 0)
  ELSE IF s = STATE_INIT_FROM_BOOTLOADER /\ cur
  THEN Outcome(FALSE, STATE_PLUG, HPD_STABILIZE_MS, er, FALSE, 0, 0, 0, 0, 0)
  ELSE Outcome(FALSE, STATE_HPD_RESET, HPD_STABILIZE_MS, er, FALSE, 0, 0, 0, 0, 0)

\* handle_hpd_evt: s is data->state, cur the HPD level hpd_worker latched.
handle_hpd_evt(s, cur, er) ==
  IF s = STATE_DONE_ENABLED /\ ~cur
  THEN Outcome(FALSE, STATE_WAIT_FOR_HPD_REASSERT, HPD_DROP_TIMEOUT_MS, er, FALSE,
               0, 0, 0, 0, 0)
  ELSE IF s = STATE_WAIT_FOR_HPD_REASSERT /\ cur
  THEN Outcome(FALSE, STATE_RECHECK_EDID, CHECK_EDID_DELAY_MS, 0, TRUE,
               0, 0, 0, 0, 0)
  ELSE IF s = STATE_DONE_ENABLED /\ cur
  THEN Outcome(TRUE, s, 0, er, FALSE, 0, 0, 0, 0, 0)
  ELSE IF s = STATE_INIT_FROM_BOOTLOADER /\ cur
  THEN Outcome(FALSE, STATE_PLUG, HPD_STABILIZE_MS, er, FALSE, 0, 0, 0, 0, 0)
  ELSE Outcome(FALSE, STATE_HPD_RESET, HPD_STABILIZE_MS, er, FALSE, 0, 0, 0, 0, 0)

\* state_machine_dispatch: the states with a handler (the other entries are NULL).
HasHandler(s) ==
  s \in {STATE_HPD_RESET, STATE_PLUG, STATE_CHECK_EDID,
         STATE_WAIT_FOR_HPD_REASSERT, STATE_RECHECK_EDID}

(* ------------------------------------------------------------------ *)
(* hpd_worker                                                         *)
(* ------------------------------------------------------------------ *)

\* The invocation is over: hpd_worker returns and its locals die.
WorkerReturns ==
  /\ pc' = [pc EXCEPT !.worker = "idle"]
  /\ w_pending' = 0
  /\ cur_hpd' = FALSE
  /\ status' = 0
  /\ tgt_state' = STATE_HPD_RESET
  /\ resched_time' = [resched_time EXCEPT !.worker = 0]
  /\ calls' = ZeroCalls

\* The workqueue takes the queued work item and starts hpd_worker; from here
\* on the work item is no longer pending and may be queued again.
WorkerStart ==
  /\ pc.worker = "idle"
  /\ dwork.st = "queued"
  /\ dwork' = DworkIdle
  /\ pc' = [pc EXCEPT !.worker = "w_snap"]
  /\ UNCHANGED <<data_vars, lock, canceling, hpd, w_locals, resched_time,
                 obs_vars, n_notif, sd_retry, ever_disabled, unnotified>>

\* Mutant of WorkerSnapshot: the flag is observed but not cleared.
WorkerSnapshot_KeepFlag ==
  /\ pc.worker = "w_snap"
  /\ lock = "free"
  /\ w_pending' = pending_hpd_evt
  /\ n_notif' = 0
  /\ pc' = [pc EXCEPT !.worker = "w_sample"]
  /\ UNCHANGED <<data_vars, lock, dwork, canceling, hpd, cur_hpd, status,
                 tgt_state, resched_time, obs_vars, sd_retry, ever_disabled, unnotified>>

\* mutex_lock; observe and clear the pending flag; mutex_unlock.
WorkerSnapshot ==
  /\ pc.worker = "w_snap"
  /\ lock = "free"
  /\ w_pending' = pending_hpd_evt
  /\ pending_hpd_evt' = 0
  /\ n_notif' = 0
  /\ pc' = [pc EXCEPT !.worker = "w_sample"]
  /\ UNCHANGED <<state, shutdown, edid_reads, lock, dwork, canceling, hpd,
                 cur_hpd, status, tgt_state, resched_time, obs_vars, sd_retry, ever_disabled, unnotified>>

\* cur_hpd = data->ops->get_hpd_state(data->drv_data), outside the lock.
WorkerSample ==
  /\ pc.worker = "w_sample"
  /\ cur_hpd' = hpd
  /\ calls' = [calls EXCEPT !.get_hpd_state = @ + 1]
  /\ pc' = [pc EXCEPT !.worker = "w_route"]
  /\ UNCHANGED <<data_vars, lock, dwork, canceling, hpd, w_pending, status,
                 tgt_state, resched_time, last_out, att_reads, att_dis, n_notif,
                 sd_retry, ever_disabled, unnotified>>

\* What a handler run leaves behind: edid_reads, the collaborator calls it
\* made, and either a return or the call of set_hpd_state(o.tgt, o.timeout);
\* st is the value the run leaves in the local status.
Apply(o, st) ==
  /\ edid_reads' = o.edid_reads
  /\ last_out' = IF o.rdy > 0 THEN "edid_ready"
                 ELSE IF o.dis > 0 THEN "disable" ELSE last_out
  /\ att_reads' = IF o.fresh THEN 0 ELSE att_reads + o.read
  /\ att_dis' = IF o.fresh THEN 0 ELSE Min(att_dis + o.dis, MaxDisable)
  /\ ever_disabled' = (ever_disabled \/ o.dis > 0)
  /\ IF o.ret
     THEN WorkerReturns
     ELSE /\ pc' = [pc EXCEPT !.worker = "set_state"]
          /\ tgt_state' = o.tgt
          /\ status' = st
          /\ resched_time' = [resched_time EXCEPT !.worker = o.timeout]
          /\ calls' = [get_hpd_state |-> calls.get_hpd_state + o.get,
                       disable |-> calls.disable + o.dis,
                       edid_read |-> calls.edid_read + o.read,
                       edid_ready |-> calls.edid_ready + o.rdy,
                       edid_recheck |-> calls.edid_recheck + o.rechk]
          /\ UNCHANGED <<w_pending, cur_hpd>>
  /\ UNCHANGED <<state, pending_hpd_evt, shutdown, lock, dwork, canceling, hpd,
                 n_notif, sd_retry, unnotified>>

\* if (pending_hpd_evt) handle_hpd_evt(data, cur_hpd);
HandleHpdEvt ==
  /\ pc.worker = "w_route"
  /\ w_pending = 1
  /\ Apply(handle_hpd_evt(state, cur_hpd, edid_reads), status)

Dispatching(s) ==
  /\ pc.worker = "w_route"
  /\ w_pending = 0
  /\ state < HPD_STATE_COUNT
  /\ state = s

HpdResetState ==
  /\ Dispatching(STATE_HPD_RESET)
  /\ Apply(hpd_reset_state(edid_reads), status)

HpdPlugState ==
  /\ Dispatching(STATE_PLUG)
  /\ Apply(hpd_plug_state(hpd, edid_reads), status)

EdidCheckState ==
  /\ Dispatching(STATE_CHECK_EDID)
  /\ \E ok \in BOOLEAN : Apply(edid_check_state(hpd, ok, edid_reads), status)

WaitForHpdReassertState ==
  /\ Dispatching(STATE_WAIT_FOR_HPD_REASSERT)
  /\ Apply(wait_for_hpd_reassert_state(edid_reads), status)

EdidRecheckState ==
  /\ Dispatching(STATE_RECHECK_EDID)
  /\ \E st \in {-1, 0, 1} : Apply(edid_recheck_state(st, edid_reads), st)

\* NULL == func: pr_warn and return.
NullHandler ==
  /\ pc.worker = "w_route"
  /\ w_pending = 0
  /\ state < HPD_STATE_COUNT
  /\ ~HasHandler(state)
  /\ WorkerReturns
  /\ UNCHANGED <<data_vars, lock, dwork, canceling, hpd, last_out, att_reads,
                 att_dis, n_notif, sd_retry, ever_disabled, unnotified>>

(* ------------------------------------------------------------------ *)
(* set_hpd_state and sched_hpd_work                                   *)
(* ------------------------------------------------------------------ *)

\* Mutant of SetHpdState: the test of the pending flag is missing, every
\* transition goes on into sched_hpd_work.
SetHpdState_AlwaysSched ==
  /\ pc.worker = "set_state"
  /\ lock = "free"
  /\ state' = tgt_state
  /\ lock' = "worker"
  /\ pc' = [pc EXCEPT !.worker = "sched_cancel"]
  /\ UNCHANGED <<pending_hpd_evt, shutdown, edid_reads, dwork, canceling, hpd,
                 w_locals, resched_time, obs_vars, n_notif, sd_retry, ever_disabled, unnotified>>

\* Mutant of SetHpdState: the state is written without taking the lock first.
SetHpdState_NoLock ==
  /\ pc.worker = "set_state"
  /\ state' = tgt_state
  /\ IF pending_hpd_evt # 0
     THEN /\ WorkerReturns
          /\ UNCHANGED lock
     ELSE /\ lock' = "worker"
          /\ pc' = [pc EXCEPT !.worker = "sched_cancel"]
          /\ UNCHANGED <<w_locals, resched_time, calls>>
  /\ UNCHANGED <<pending_hpd_evt, shutdown, edid_reads, dwork, canceling, hpd,
                 last_out, att_reads, att_dis, n_notif, sd_retry, ever_disabled,
                 unnotified>>

\* Mutant of SetHpdState: a pending flag makes the invocation drop its own
\* transition instead of only its reschedule.
SetHpdState_Redirect ==
  /\ pc.worker = "set_state"
  /\ lock = "free"
  /\ IF pending_hpd_evt # 0
     THEN /\ WorkerReturns
          /\ UNCHANGED <<state, lock>>
     ELSE /\ state' = tgt_state
          /\ lock' = "worker"
          /\ pc' = [pc EXCEPT !.worker = "sched_cancel"]
          /\ UNCHANGED <<w_locals, resched_time, calls>>
  /\ UNCHANGED <<pending_hpd_evt, shutdown, edid_reads, dwork, canceling, hpd,
                 last_out, att_reads, att_dis, n_notif, sd_retry, ever_disabled,
                 unnotified>>

\* mutex_lock; data->state = target_state; if the pending flag is set, unlock
\* and return without touching the callback, else go on into sched_hpd_work.
SetHpdState ==
  /\ pc.worker = "set_state"
  /\ lock = "free"
  /\ state' = tgt_state
  /\ IF pending_hpd_evt # 0
     THEN /\ WorkerReturns
          /\ UNCHANGED lock
     ELSE /\ lock' = "worker"
          /\ pc' = [pc EXCEPT !.worker = "sched_cancel"]
          /\ UNCHANGED <<w_locals, resched_time, calls>>
  /\ UNCHANGED <<pending_hpd_evt, shutdown, edid_reads, dwork, canceling, hpd,
                 last_out, att_reads, att_dis, n_notif, sd_retry, ever_disabled, unnotified>>

\* The caller of sched_hpd_work leaves: the worker returns from hpd_worker,
\* the notifier from hpd_set_pending_evt; both drop the lock first.
SchedReturns(t) ==
  /\ lock' = "free"
  /\ IF t = "worker"
     THEN WorkerReturns
     ELSE /\ pc' = [pc EXCEPT ![t] = "idle"]
          /\ UNCHANGED <<w_locals, resched_time, calls>>

\* sched_hpd_work, first statement: cancel_delayed_work(&data->dwork).
SchedCancel(t) ==
  /\ pc[t] = "sched_cancel"
  /\ dwork' = cancel_delayed_work(dwork)
  /\ pc' = [pc EXCEPT ![t] = "sched_test"]
  /\ UNCHANGED <<data_vars, lock, canceling, hpd, w_locals, resched_time,
                 obs_vars, n_notif, sd_retry, ever_disabled, unnotified>>

\* Mutant of SchedTest: the test resched_time >= 0 is missing, a negative
\* delay is scheduled as well.
SchedTest_NoSignTest(t) ==
  /\ pc[t] = "sched_test"
  /\ IF shutdown = 0
     THEN /\ pc' = [pc EXCEPT ![t] = "sched_queue"]
          /\ UNCHANGED <<lock, w_locals, resched_time, calls>>
     ELSE SchedReturns(t)
  /\ UNCHANGED <<data_vars, dwork, canceling, hpd, last_out, att_reads, att_dis,
                 n_notif, sd_retry, ever_disabled, unnotified>>

\* sched_hpd_work: the test resched_time >= 0 && !data->shutdown.
SchedTest(t) ==
  /\ pc[t] = "sched_test"
  /\ IF resched_time[t] >= 0 /\ shutdown = 0
     THEN /\ pc' = [pc EXCEPT ![t] = "sched_queue"]
          /\ UNCHANGED <<lock, w_locals, resched_time, calls>>
     ELSE SchedReturns(t)
  /\ UNCHANGED <<data_vars, dwork, canceling, hpd, last_out, att_reads, att_dis,
                 n_notif, sd_retry, ever_disabled, unnotified>>

\* sched_hpd_work: schedule_delayed_work(&data->dwork, resched_time).
SchedQueue(t) ==
  /\ pc[t] = "sched_queue"
  /\ dwork' = schedule_delayed_work(dwork, resched_time[t])
  /\ SchedReturns(t)
  /\ UNCHANGED <<data_vars, canceling, hpd, last_out, att_reads, att_dis,
                 n_notif, sd_retry, ever_disabled, unnotified>>

(* ------------------------------------------------------------------ *)
(* hpd_set_pending_evt                                                *)
(* ------------------------------------------------------------------ *)

\* A client calls hpd_set_pending_evt; the interface allows it until
\* hpd_shutdown has returned.
NotifyCall ==
  /\ pc.notifier = "idle"
  /\ pc.shutdown # "returned"
  /\ pc' = [pc EXCEPT !.notifier = "n_lock"]
  /\ UNCHANGED <<data_vars, lock, dwork, canceling, hpd, w_locals, resched_time,
                 obs_vars, n_notif, sd_retry, ever_disabled, unnotified>>

\* mutex_lock; data->pending_hpd_evt = 1; then sched_hpd_work(data, 0).
HpdSetPendingEvt ==
  /\ pc.notifier = "n_lock"
  /\ lock = "free"
  /\ lock' = "notifier"
  /\ pending_hpd_evt' = 1
  /\ n_notif' = Min(n_notif + 1, MaxNotif)
  /\ unnotified' = FALSE
  /\ resched_time' = [resched_time EXCEPT !.notifier = 0]
  /\ pc' = [pc EXCEPT !.notifier = "sched_cancel"]
  /\ UNCHANGED <<state, shutdown, edid_reads, dwork, canceling, hpd, w_locals,
                 obs_vars, sd_retry, ever_disabled>>

(* ------------------------------------------------------------------ *)
(* hpd_shutdown                                                       *)
(* ------------------------------------------------------------------ *)

\* A retry callback is pending: the 60 ms callback of a read or recheck retry.
RetryPending ==
  /\ state \in {STATE_CHECK_EDID, STATE_RECHECK_EDID}
  /\ dwork.st = "timer"
  /\ dwork.delay = CHECK_EDID_DELAY_MS

\* The client calls hpd_shutdown (once).
ShutdownCall ==
  /\ pc.shutdown = "idle"
  /\ pc' = [pc EXCEPT !.shutdown = "s_flag"]
  /\ sd_retry' = RetryPending
  /\ UNCHANGED <<data_vars, lock, dwork, canceling, hpd, w_locals, resched_time,
                 obs_vars, n_notif, ever_disabled, unnotified>>

\* data->shutdown = 1, written without the lock.
ShutdownSetFlag ==
  /\ pc.shutdown = "s_flag"
  /\ shutdown' = 1
  /\ pc' = [pc EXCEPT !.shutdown = "s_cancel"]
  /\ UNCHANGED <<state, pending_hpd_evt, edid_reads, lock, dwork, canceling, hpd,
                 w_locals, resched_time, obs_vars, n_notif, sd_retry, ever_disabled, unnotified>>

\* cancel_delayed_work_sync, first half: take the pending callback away and
\* own the work item, so that nobody can queue it meanwhile.
ShutdownCancel ==
  /\ pc.shutdown = "s_cancel"
  /\ dwork' = DworkIdle
  /\ canceling' = TRUE
  /\ pc' = [pc EXCEPT !.shutdown = "s_flush"]
  /\ UNCHANGED <<data_vars, lock, hpd, w_locals, resched_time, obs_vars,
                 n_notif, sd_retry, ever_disabled, unnotified>>

\* cancel_delayed_work_sync, second half: wait until no invocation is running,
\* then release the work item.
ShutdownFlush ==
  /\ pc.shutdown = "s_flush"
  /\ pc.worker = "idle"
  /\ canceling' = FALSE
  /\ pc' = [pc EXCEPT !.shutdown = "s_ops"]
  /\ UNCHANGED <<data_vars, lock, dwork, hpd, w_locals, resched_time, obs_vars,
                 n_notif, sd_retry, ever_disabled, unnotified>>

\* data->ops->shutdown(data->drv_data); hpd_shutdown returns.
ShutdownReturns ==
  /\ pc.shutdown = "s_ops"
  /\ pc' = [pc EXCEPT !.shutdown = "returned"]
  /\ UNCHANGED <<data_vars, lock, dwork, canceling, hpd, w_locals, resched_time,
                 obs_vars, n_notif, sd_retry, ever_disabled, unnotified>>

(* ------------------------------------------------------------------ *)
(* Environment                                                        *)
(* ------------------------------------------------------------------ *)

\* The sink asserts or drops the HPD line.
HpdChange ==
  /\ hpd' = ~hpd
  /\ unnotified' = TRUE
  /\ UNCHANGED <<data_vars, lock, dwork, canceling, pc, w_locals, resched_time,
                 obs_vars, n_notif, sd_retry, ever_disabled>>

\* The delay of the scheduled callback is over: the timer queues the work.
TimerFires ==
  /\ dwork.st = "timer"
  /\ dwork' = [dwork EXCEPT !.st = "queued"]
  /\ UNCHANGED <<data_vars, lock, canceling, hpd, pc, w_locals, resched_time,
                 obs_vars, n_notif, sd_retry, ever_disabled, unnotified>>

Next ==
  \/ WorkerStart
  \/ WorkerSnapshot
  \/ WorkerSample
  \/ HandleHpdEvt
  \/ HpdResetState
  \/ HpdPlugState
  \/ EdidCheckState
  \/ WaitForHpdReassertState
  \/ EdidRecheckState
  \/ NullHandler
  \/ SetHpdState
  \/ \E t \in Threads : SchedCancel(t)
  \/ \E t \in Threads : SchedTest(t)
  \/ \E t \in Threads : SchedQueue(t)
  \/ NotifyCall
  \/ HpdSetPendingEvt
  \/ ShutdownCall
  \/ ShutdownSetFlag
  \/ ShutdownCancel
  \/ ShutdownFlush
  \/ ShutdownReturns
  \/ HpdChange
  \/ TimerFires

Spec == Init /\ [][Next]_vars

(* ------------------------------------------------------------------ *)
(* The machine left to run: hpd_shutdown is never called, the         *)
(* workqueue runs queued work, timers expire, and a thread that has   *)
(* entered hpd_set_pending_evt goes on until it returns. Whether and  *)
(* when the client notifies, and what the line does, stays free.      *)
(* ------------------------------------------------------------------ *)

\* One step of the hpd_worker invocation, from dequeue to return.
WorkerStep ==
  \/ WorkerStart
  \/ WorkerSnapshot
  \/ WorkerSample
  \/ HandleHpdEvt
  \/ HpdResetState
  \/ HpdPlugState
  \/ EdidCheckState
  \/ WaitForHpdReassertState
  \/ EdidRecheckState
  \/ NullHandler
  \/ SetHpdState
  \/ SchedCancel("worker")
  \/ SchedTest("worker")
  \/ SchedQueue("worker")

\* One step of a hpd_set_pending_evt call that has begun.
NotifierStep ==
  \/ HpdSetPendingEvt
  \/ SchedCancel("notifier")
  \/ SchedTest("notifier")
  \/ SchedQueue("notifier")

LiveNext ==
  \/ WorkerStep
  \/ NotifierStep
  \/ NotifyCall
  \/ HpdChange
  \/ TimerFires

Fairness ==
  /\ WF_vars(WorkerStep)
  /\ WF_vars(NotifierStep)
  /\ WF_vars(TimerFires)

LiveSpec == Init /\ [][LiveNext]_vars /\ Fairness

TypeOK ==
  /\ state \in States
  /\ pending_hpd_evt \in {0, 1}
  /\ shutdown \in {0, 1}
  /\ edid_reads \in 0 .. MAX_EDID_READ_ATTEMPTS
  /\ lock \in {"free", "worker", "notifier"}
  /\ dwork.st \in {"idle", "timer", "queued"}
  /\ dwork.delay \in Delays
  /\ canceling \in BOOLEAN
  /\ hpd \in BOOLEAN
  /\ w_pending \in {0, 1}
  /\ status \in {-1, 0, 1}
  /\ tgt_state \in States
  /\ att_reads \in 0 .. MAX_EDID_READ_ATTEMPTS
  /\ att_dis \in 0 .. MaxDisable
  /\ n_notif \in 0 .. MaxNotif
  /\ ever_disabled \in BOOLEAN
  /\ unnotified \in BOOLEAN

(* ================================================================== *)
(* Claims                                                             *)
(* ================================================================== *)

\* Steps of the worker, named by the positions they connect.
SnapshotStep == pc.worker = "w_snap" /\ pc'.worker = "w_sample"
RouteStep == pc.worker = "w_route" /\ pc'.worker # "w_route"
CommitStep == pc.worker = "set_state" /\ pc'.worker # "set_state"
NotifyDoneStep == pc.notifier \in {"sched_test", "sched_queue"} /\ pc'.notifier = "idle"

QueuedNow == [st |-> "queued", delay |-> 0]

EventTargets ==
  {<<STATE_WAIT_FOR_HPD_REASSERT, HPD_DROP_TIMEOUT_MS>>,
   <<STATE_RECHECK_EDID, CHECK_EDID_DELAY_MS>>,
   <<STATE_PLUG, HPD_STABILIZE_MS>>,
   <<STATE_HPD_RESET, HPD_STABILIZE_MS>>}

\* C1 (coalescing): the pending flag is set exactly when at least one
\* notification arrived since the last snapshot, however many arrived; the
\* invocation taking the snapshot observes 1 exactly in that case and clears the
\* flag (so the following invocation, absent new notifications, observes 0); an
\* invocation that observed 1 takes the event path (no handler runs: no
\* collaborator call beyond the sample, target and delay from the event table);
\* and every completed notification leaves the same flag and the same queued
\* zero-delay callback, be it the first or the n-th.
C1_Coalescing ==
  /\ [](pending_hpd_evt \in {0, 1})
  /\ []((pending_hpd_evt = 1) <=> (n_notif >= 1))
  /\ [][SnapshotStep =>
          /\ (w_pending' = 1) <=> (n_notif >= 1)
          /\ pending_hpd_evt' = 0]_vars
  /\ [][(RouteStep /\ w_pending = 1) =>
          /\ calls.get_hpd_state = 1
          /\ last_out' = last_out
          /\ att_reads' = att_reads \/ att_reads' = 0
          /\ \/ pc'.worker = "idle" /\ state = STATE_DONE_ENABLED /\ cur_hpd
             \/ /\ pc'.worker = "set_state"
                /\ calls' = calls
                /\ <<tgt_state', resched_time'.worker>> \in EventTargets]_vars
  /\ [][NotifyDoneStep =>
          /\ pending_hpd_evt' = 1
          /\ (pc.notifier = "sched_queue" /\ ~canceling) => dwork' = QueuedNow]_vars

\* C1 witness: several notifications have coalesced and the invocation that
\* will observe them has been started.
C1_Witness ==
  /\ n_notif >= 2
  /\ pending_hpd_evt = 1
  /\ pc.worker = "w_snap"
  /\ pc.notifier = "idle"

\* C2 as stated: in every state where the flag is set and shutdown is not
\* requested, a zero-delay callback is scheduled (hpd_set_pending_evt, which
\* sets the flag and schedules under one lock, taken as one step).
C2_Original ==
  (pending_hpd_evt = 1 /\ shutdown = 0 /\ lock # "notifier") => dwork = QueuedNow

\* C2 (amended): whenever the flag is set, shutdown is not requested and no
\* thread is inside hpd_set_pending_evt's critical section, a zero-delay
\* callback is queued or the invocation that will observe the flag has been
\* started and has not yet taken its snapshot; and whenever set_hpd_state finds
\* the flag set (and so skips sched_hpd_work), the zero-delay callback is
\* queued and that step leaves it queued, also for a transition with delay -1
\* into DONE_ENABLED or DONE_DISABLED.
C2_NoNotificationDropped ==
  /\ []((pending_hpd_evt = 1 /\ shutdown = 0 /\ lock # "notifier") =>
          (dwork = QueuedNow \/ pc.worker = "w_snap"))
  /\ []((pc.worker = "set_state" /\ lock = "free" /\ pending_hpd_evt = 1
           /\ shutdown = 0) => dwork = QueuedNow)
  /\ [][(CommitStep /\ pending_hpd_evt = 1) =>
          /\ dwork' = dwork
          /\ pc'.worker = "idle"
          /\ state' = tgt_state]_vars

\* C2 witness: set_hpd_state is about to commit a steady state with delay -1
\* while a notification that raced in has set the flag.
C2_Witness ==
  /\ pc.worker = "set_state"
  /\ lock = "free"
  /\ pending_hpd_evt = 1
  /\ shutdown = 0
  /\ tgt_state \in {STATE_DONE_ENABLED, STATE_DONE_DISABLED}
  /\ resched_time.worker = -1
  /\ dwork = QueuedNow

\* C3 as stated: hpd_shutdown was called while a retry callback was pending
\* and has returned; then no worker invocation is running (none has started
\* since, cancel_delayed_work_sync having waited for the one in flight) and no
\* callback is left that could start one.
C3_Original ==
  (sd_retry /\ pc.shutdown = "returned") =>
     (pc.worker = "idle" /\ dwork.st = "idle" /\ calls = ZeroCalls)

\* C4 as stated: once data->shutdown is 1, no step schedules a callback.
C4_Original ==
  [][(shutdown = 1) => ~(dwork.st = "idle" /\ dwork'.st # "idle")]_vars

\* More steps of the worker.
SampleStep == pc.worker = "w_sample" /\ pc'.worker = "w_route"
HandlerStep(s) == RouteStep /\ w_pending = 0 /\ state = s
EventStep(s, h) == RouteStep /\ w_pending = 1 /\ state = s /\ cur_hpd = h
WorkerSchedDone ==
  pc.worker \in {"sched_test", "sched_queue"} /\ pc'.worker = "idle"
NoOutputCall ==
  /\ calls'.disable <= calls.disable
  /\ calls'.edid_ready <= calls.edid_ready
  /\ last_out' = last_out
EnabledSide ==
  {STATE_DONE_ENABLED, STATE_WAIT_FOR_HPD_REASSERT, STATE_RECHECK_EDID}

\* C5 (grace-window recovery): from DONE_ENABLED an event sampled de-asserted
\* commits WAIT_FOR_HPD_REASSERT with 1500 ms; an event sampled asserted in
\* WAIT_FOR_HPD_REASSERT zeroes edid_reads and commits RECHECK_EDID with
\* 60 ms; the RECHECK_EDID handler with edid_recheck = 0 commits DONE_ENABLED
\* with no reschedule; and while state is DONE_ENABLED, WAIT_FOR_HPD_REASSERT
\* or RECHECK_EDID no step calls disable() or edid_ready(), the latest of the
\* two calls being the edid_ready that enabled the display.
C5_GraceWindowRecovery ==
  /\ [](state \in EnabledSide => last_out = "edid_ready")
  /\ [][(state \in EnabledSide) => NoOutputCall]_vars
  /\ [][EventStep(STATE_DONE_ENABLED, FALSE) =>
          /\ pc'.worker = "set_state"
          /\ tgt_state' = STATE_WAIT_FOR_HPD_REASSERT
          /\ resched_time'.worker = HPD_DROP_TIMEOUT_MS]_vars
  /\ [][EventStep(STATE_WAIT_FOR_HPD_REASSERT, TRUE) =>
          /\ pc'.worker = "set_state"
          /\ tgt_state' = STATE_RECHECK_EDID
          /\ resched_time'.worker = CHECK_EDID_DELAY_MS
          /\ edid_reads' = 0]_vars
  /\ [][(HandlerStep(STATE_RECHECK_EDID) /\ status' = 0) =>
          /\ pc'.worker = "set_state"
          /\ tgt_state' = STATE_DONE_ENABLED
          /\ resched_time'.worker = -1
          /\ calls'.edid_recheck = 1
          /\ edid_reads' = edid_reads]_vars
  /\ [][CommitStep => state' = tgt_state]_vars

\* C5 witness: the recheck after a drop and reassert found the EDID unchanged
\* and is about to commit DONE_ENABLED.
C5_Witness ==
  /\ pc.worker = "set_state"
  /\ state = STATE_RECHECK_EDID
  /\ status = 0
  /\ calls.edid_recheck = 1
  /\ tgt_state = STATE_DONE_ENABLED
  /\ last_out = "edid_ready"

\* C6 (grace-window expiry): from DONE_ENABLED an event sampled de-asserted
\* commits WAIT_FOR_HPD_REASSERT and arms a 1500 ms callback; when that
\* callback runs with no event pending the handler commits RESET with delay 0
\* and calls nothing; the RESET handler calls disable() once and commits PLUG
\* with 10 ms; and disable() is not called before the RESET handler runs: no
\* step calls it while state is DONE_ENABLED or WAIT_FOR_HPD_REASSERT, and at
\* the commit of RESET the latest output call is still edid_ready.
C6_GraceWindowExpiry ==
  /\ [][EventStep(STATE_DONE_ENABLED, FALSE) =>
          /\ pc'.worker = "set_state"
          /\ tgt_state' = STATE_WAIT_FOR_HPD_REASSERT
          /\ resched_time'.worker = HPD_DROP_TIMEOUT_MS
          /\ calls' = calls]_vars
  /\ [][(WorkerSchedDone /\ state = STATE_WAIT_FOR_HPD_REASSERT /\ shutdown = 0) =>
          dwork' = [st |-> "timer", delay |-> HPD_DROP_TIMEOUT_MS]]_vars
  /\ [][HandlerStep(STATE_WAIT_FOR_HPD_REASSERT) =>
          /\ pc'.worker = "set_state"
          /\ tgt_state' = STATE_HPD_RESET
          /\ resched_time'.worker = 0
          /\ calls' = calls
          /\ last_out' = "edid_ready"]_vars
  /\ [][(CommitStep /\ state = STATE_WAIT_FOR_HPD_REASSERT /\ w_pending = 0) =>
          /\ state' = STATE_HPD_RESET
          /\ last_out' = "edid_ready"]_vars
  /\ [][(state \in {STATE_DONE_ENABLED, STATE_WAIT_FOR_HPD_REASSERT}) =>
          NoOutputCall]_vars
  /\ [][HandlerStep(STATE_HPD_RESET) =>
          /\ pc'.worker = "set_state"
          /\ calls'.disable = 1
          /\ last_out' = "disable"
          /\ tgt_state' = STATE_PLUG
          /\ resched_time'.worker = CHECK_PLUG_STATE_DELAY_MS]_vars

\* C6 witness: the 1500 ms callback ran in WAIT_FOR_HPD_REASSERT with no event
\* pending and is about to commit RESET, nothing having been disabled yet.
C6_Witness ==
  /\ pc.worker = "set_state"
  /\ state = STATE_WAIT_FOR_HPD_REASSERT
  /\ w_pending = 0
  /\ tgt_state = STATE_HPD_RESET
  /\ resched_time.worker = 0
  /\ last_out = "edid_ready"

\* C7 (benign bounce): an invocation that observed a pending event in
\* DONE_ENABLED and sampled the signal asserted returns at once: state and
\* edid_reads keep their values, the only collaborator call of the invocation
\* is the one get_hpd_state sample, and the invocation neither schedules nor
\* cancels a callback (dwork is untouched by its snapshot, sample and return).
C7_BenignBounce ==
  /\ [][EventStep(STATE_DONE_ENABLED, TRUE) =>
          /\ pc'.worker = "idle"
          /\ state' = STATE_DONE_ENABLED
          /\ edid_reads' = edid_reads
          /\ dwork' = dwork
          /\ pending_hpd_evt' = pending_hpd_evt
          /\ calls = [ZeroCalls EXCEPT !.get_hpd_state = 1]
          /\ last_out' = last_out
          /\ att_reads' = att_reads
          /\ att_dis' = att_dis]_vars
  /\ [][(SnapshotStep \/ SampleStep) =>
          /\ dwork' = dwork
          /\ state' = state
          /\ edid_reads' = edid_reads
          /\ last_out' = last_out]_vars

\* C7 witness: the worker has observed a pending event and sampled the signal
\* asserted while state is DONE_ENABLED.
C7_Witness ==
  /\ pc.worker = "w_route"
  /\ w_pending = 1
  /\ state = STATE_DONE_ENABLED
  /\ cur_hpd

\* An EDID read of the CHECK_EDID handler failed in this step.
ReadFailedStep ==
  /\ HandlerStep(STATE_CHECK_EDID)
  /\ calls'.edid_read = 1
  /\ calls'.edid_ready = 0

\* C8 (bounded read retries): in CHECK_EDID, entered with edid_reads = 0, the
\* handler finds edid_reads equal to the number of edid_read calls made since
\* (all failures) and no disable() call made since; a failed read that leaves
\* the count below 5 calls no disable() and commits CHECK_EDID with 60 ms,
\* which, no notification having arrived, arms a 60 ms callback; the failed
\* read that brings the count to 5 commits DONE_DISABLED with delay -1, the
\* attempt then counting exactly 5 edid_read calls and exactly one disable()
\* call; and, no notification having arrived, no callback is scheduled after
\* that run.
C8_BoundedReadRetries ==
  /\ []((pc.worker = "w_route" /\ w_pending = 0 /\ state = STATE_CHECK_EDID) =>
          /\ att_reads = edid_reads
          /\ att_dis = 0
          /\ edid_reads < MAX_EDID_READ_ATTEMPTS)
  /\ [][(ReadFailedStep /\ edid_reads < MAX_EDID_READ_ATTEMPTS - 1) =>
          /\ edid_reads' = edid_reads + 1
          /\ att_reads' = edid_reads'
          /\ calls'.disable = 0
          /\ att_dis' = 0
          /\ tgt_state' = STATE_CHECK_EDID
          /\ resched_time'.worker = CHECK_EDID_DELAY_MS]_vars
  /\ [][(ReadFailedStep /\ edid_reads >= MAX_EDID_READ_ATTEMPTS - 1) =>
          /\ edid_reads' = MAX_EDID_READ_ATTEMPTS
          /\ att_reads' = MAX_EDID_READ_ATTEMPTS
          /\ calls'.disable = 1
          /\ att_dis' = 1
          /\ tgt_state' = STATE_DONE_DISABLED
          /\ resched_time'.worker = -1]_vars
  /\ [][(CommitStep /\ state = STATE_CHECK_EDID) => state' = tgt_state]_vars
  /\ [][(WorkerSchedDone /\ state = STATE_CHECK_EDID /\ shutdown = 0) =>
          dwork' = [st |-> "timer", delay |-> CHECK_EDID_DELAY_MS]]_vars
  /\ [][(WorkerSchedDone /\ state = STATE_DONE_DISABLED) =>
          /\ pc.worker = "sched_test"
          /\ dwork' = DworkIdle]_vars

\* C8 witness: the fifth consecutive read failed; the handler has called
\* disable() and is about to commit DONE_DISABLED with no notification pending.
C8_Witness ==
  /\ pc.worker = "set_state"
  /\ state = STATE_CHECK_EDID
  /\ edid_reads = MAX_EDID_READ_ATTEMPTS
  /\ att_reads = MAX_EDID_READ_ATTEMPTS
  /\ att_dis = 1
  /\ tgt_state = STATE_DONE_DISABLED
  /\ pending_hpd_evt = 0

\* C9 (retry-counter bound): edid_reads stays within 0 .. 5 in every state;
\* a run that raises it to 5 decides, in that run, the transition out of the
\* retrying state (CHECK_EDID to DONE_DISABLED, RECHECK_EDID to RESET) and
\* commits it; so state is never CHECK_EDID or RECHECK_EDID with edid_reads
\* at 5 except inside that run, before its commit.
C9_RetryCounterBound ==
  /\ [](edid_reads \in 0 .. MAX_EDID_READ_ATTEMPTS)
  /\ [][(RouteStep /\ edid_reads' = MAX_EDID_READ_ATTEMPTS
           /\ edid_reads # MAX_EDID_READ_ATTEMPTS) =>
          /\ pc'.worker = "set_state"
          /\ \/ state = STATE_CHECK_EDID /\ tgt_state' = STATE_DONE_DISABLED
             \/ state = STATE_RECHECK_EDID /\ tgt_state' = STATE_HPD_RESET]_vars
  /\ [][CommitStep => (state' = tgt_state /\ edid_reads' = edid_reads)]_vars
  /\ []((edid_reads = MAX_EDID_READ_ATTEMPTS
           /\ state \in {STATE_CHECK_EDID, STATE_RECHECK_EDID}) =>
          /\ pc.worker = "set_state"
          /\ tgt_state \in {STATE_DONE_DISABLED, STATE_HPD_RESET})

\* C9 witness: a failed recheck has raised edid_reads to 5 and the run is
\* about to commit RESET.
C9_Witness ==
  /\ pc.worker = "set_state"
  /\ state = STATE_RECHECK_EDID
  /\ status = -1
  /\ edid_reads = MAX_EDID_READ_ATTEMPTS
  /\ tgt_state = STATE_HPD_RESET

\* C10 (unplugged at plug check): when the PLUG handler runs with no pending
\* event and get_hpd_state returns false, the run calls disable() exactly
\* once and edid_read not at all, leaves edid_reads unchanged, commits
\* DONE_DISABLED with delay -1 and never reaches schedule_delayed_work; if no
\* notification has set the pending flag by the commit, no callback is
\* scheduled when the run ends.
C10_UnpluggedAtPlugCheck ==
  /\ [][(HandlerStep(STATE_PLUG) /\ ~hpd) =>
          /\ pc'.worker = "set_state"
          /\ tgt_state' = STATE_DONE_DISABLED
          /\ resched_time'.worker = -1
          /\ calls'.disable = 1
          /\ calls'.edid_read = 0
          /\ calls'.edid_ready = 0
          /\ last_out' = "disable"
          /\ edid_reads' = edid_reads]_vars
  /\ [][(CommitStep /\ state = STATE_PLUG /\ tgt_state = STATE_DONE_DISABLED) =>
          /\ state' = STATE_DONE_DISABLED
          /\ calls.disable = 1
          /\ calls.edid_read = 0
          /\ edid_reads' = edid_reads]_vars
  /\ []((pc.worker \in {"sched_cancel", "sched_test", "sched_queue"}
           /\ state = STATE_DONE_DISABLED) =>
          /\ resched_time.worker = -1
          /\ pc.worker # "sched_queue"
          /\ calls.disable = 1)
  /\ [][(WorkerSchedDone /\ state = STATE_DONE_DISABLED) =>
          dwork' = DworkIdle]_vars

\* C10 witness: the PLUG handler found the signal low, has called disable()
\* and is about to commit DONE_DISABLED.
C10_Witness ==
  /\ pc.worker = "set_state"
  /\ state = STATE_PLUG
  /\ w_pending = 0
  /\ tgt_state = STATE_DONE_DISABLED
  /\ resched_time.worker = -1
  /\ calls.disable = 1
  /\ calls.edid_read = 0

(* ------------------------------------------------------------------ *)
(* C11: the event interpretation table                                *)
(* ------------------------------------------------------------------ *)

\* The table of the claim: the transition of an invocation that observed the
\* pending flag in state s with the sample a, as <<target, delay>>.
C11_Row(s, a) ==
  CASE s = STATE_DONE_ENABLED /\ ~a ->
         <<STATE_WAIT_FOR_HPD_REASSERT, HPD_DROP_TIMEOUT_MS>>
    [] s = STATE_WAIT_FOR_HPD_REASSERT /\ a ->
         <<STATE_RECHECK_EDID, CHECK_EDID_DELAY_MS>>
    [] s = STATE_INIT_FROM_BOOTLOADER /\ a ->
         <<STATE_PLUG, HPD_STABILIZE_MS>>
    [] OTHER -> <<STATE_HPD_RESET, HPD_STABILIZE_MS>>

\* The invocation made no collaborator call but its own sample of the line.
OnlySampled(c) ==
  /\ c.get_hpd_state = 1
  /\ c.disable = 0
  /\ c.edid_read = 0
  /\ c.edid_ready = 0
  /\ c.edid_recheck = 0

\* C11: for every state s and sample a, the invocation that observed the
\* pending flag does what the table says: (DONE_ENABLED, false) ->
\* WAIT_FOR_HPD_REASSERT after 1500; (WAIT_FOR_HPD_REASSERT, true) ->
\* edid_reads := 0 and RECHECK_EDID after 60; (DONE_ENABLED, true) -> nothing
\* changes; (INIT_FROM_BOOTLOADER, true) -> PLUG after 40; every other pair ->
\* HPD_RESET after 40. The handler of s does not run: the invocation calls no
\* collaborator but its sample, and the state written is the table's target.
C11_EventTable ==
  [][\A s \in States, a \in BOOLEAN :
       /\ EventStep(s, a) =>
            /\ OnlySampled(calls)
            /\ last_out' = last_out
            /\ ever_disabled' = ever_disabled
            /\ IF s = STATE_DONE_ENABLED /\ a
               THEN /\ pc'.worker = "idle"
                    /\ UNCHANGED <<state, edid_reads, dwork, pending_hpd_evt>>
               ELSE /\ pc'.worker = "set_state"
                    /\ <<tgt_state', resched_time'.worker>> = C11_Row(s, a)
                    /\ calls' = calls
                    /\ edid_reads' = IF s = STATE_WAIT_FOR_HPD_REASSERT /\ a
                                     THEN 0 ELSE edid_reads
       /\ (CommitStep /\ w_pending = 1 /\ state = s /\ cur_hpd = a) =>
            /\ <<state', resched_time.worker>> = C11_Row(s, a)
            /\ OnlySampled(calls)]_vars

\* The invocation found the flag in WAIT_FOR_HPD_REASSERT with the line
\* asserted and is about to commit RECHECK_EDID with the counter zeroed.
C11_Witness ==
  /\ pc.worker = "set_state"
  /\ w_pending = 1
  /\ state = STATE_WAIT_FOR_HPD_REASSERT
  /\ cur_hpd
  /\ tgt_state = STATE_RECHECK_EDID
  /\ resched_time.worker = CHECK_EDID_DELAY_MS
  /\ edid_reads = 0
  /\ att_reads = 0

(* ------------------------------------------------------------------ *)
(* C12: the steady states are terminal                                *)
(* ------------------------------------------------------------------ *)

DoneStates == {STATE_DONE_DISABLED, STATE_DONE_ENABLED}
SteadyStates == DoneStates \cup {STATE_INIT_FROM_BOOTLOADER}

\* C12: a transition into DONE_DISABLED or DONE_ENABLED that commits with the
\* pending flag clear goes through sched_hpd_work with delay -1, which cancels
\* the callback and schedules none, so that no callback is left when the
\* invocation returns; no timer is ever armed while the state is DONE_DISABLED,
\* DONE_ENABLED or INIT_FROM_BOOTLOADER; and such a state changes only in the
\* commit of an invocation whose snapshot saw the pending flag.
C12_SteadyTerminal ==
  /\ [](dwork.st = "timer" => state \notin SteadyStates)
  /\ [][/\ (CommitStep /\ tgt_state \in DoneStates /\ pending_hpd_evt = 0) =>
             /\ pc'.worker = "sched_cancel"
             /\ resched_time.worker = -1
        /\ (pc.worker = "sched_cancel" /\ pc'.worker # "sched_cancel"
              /\ state \in DoneStates) =>
             /\ dwork' = DworkIdle
             /\ pc'.worker = "sched_test"
        /\ (WorkerSchedDone /\ state \in DoneStates) =>
             /\ pc.worker = "sched_test"
             /\ dwork' = DworkIdle
        /\ (state \in SteadyStates /\ state' # state) =>
             /\ CommitStep
             /\ w_pending = 1]_vars

\* DONE_ENABLED was committed with the flag clear; sched_hpd_work has cancelled
\* and is about to skip the scheduling.
C12_Witness ==
  /\ pc.worker = "sched_test"
  /\ state = STATE_DONE_ENABLED
  /\ w_pending = 0
  /\ resched_time.worker = -1
  /\ pending_hpd_evt = 0
  /\ dwork = DworkIdle

(* ------------------------------------------------------------------ *)
(* C13: the bootloader takeover does not blank the display            *)
(* ------------------------------------------------------------------ *)

\* C13: while the state is INIT_FROM_BOOTLOADER disable() has not been called
\* since hpd_init; the event found there with the line asserted commits PLUG
\* after 40 ms, never HPD_RESET; the PLUG handler that finds the line asserted
\* and the CHECK_EDID handler whose read succeeds call no disable(); and
\* nothing but a per-state handler of HPD_RESET, PLUG or CHECK_EDID ever calls
\* disable(). Hence with the line staying asserted, the read succeeding and no
\* further notification, DONE_ENABLED is reached with no disable() call since
\* hpd_init.
C13_BootloaderTakeover ==
  /\ [](state = STATE_INIT_FROM_BOOTLOADER =>
          ~ever_disabled /\ last_out = "none")
  /\ [][/\ EventStep(STATE_INIT_FROM_BOOTLOADER, TRUE) =>
             /\ pc'.worker = "set_state"
             /\ tgt_state' = STATE_PLUG
             /\ resched_time'.worker = HPD_STABILIZE_MS
             /\ ~ever_disabled'
        /\ (CommitStep /\ state = STATE_INIT_FROM_BOOTLOADER /\ cur_hpd) =>
             /\ state' = STATE_PLUG
             /\ ~ever_disabled'
        /\ (HandlerStep(STATE_PLUG) /\ hpd) =>
             /\ tgt_state' = STATE_CHECK_EDID
             /\ ever_disabled' = ever_disabled
        /\ (HandlerStep(STATE_CHECK_EDID) /\ calls'.edid_ready = 1) =>
             /\ tgt_state' = STATE_DONE_ENABLED
             /\ resched_time'.worker = -1
             /\ ever_disabled' = ever_disabled
        /\ (ever_disabled' # ever_disabled) =>
             /\ RouteStep
             /\ w_pending = 0
             /\ state \in {STATE_HPD_RESET, STATE_PLUG, STATE_CHECK_EDID}]_vars

\* The machine rests in DONE_ENABLED and disable() was never called: the
\* display the bootloader lit was taken over without blanking it.
C13_Witness ==
  /\ state = STATE_DONE_ENABLED
  /\ pc.worker = "idle"
  /\ dwork = DworkIdle
  /\ pending_hpd_evt = 0
  /\ last_out = "edid_ready"
  /\ ~ever_disabled

(* ------------------------------------------------------------------ *)
(* C14: lock discipline                                               *)
(* ------------------------------------------------------------------ *)

SchedPositions == {"sched_cancel", "sched_test", "sched_queue"}

MidHandler == pc.worker \in {"w_sample", "w_route", "set_state"}

\* C15: a notification that arrives after the invocation's snapshot and before
\* its commit (n_notif counts them) does not redirect the invocation: the
\* notifier changes neither the worker's position nor its target, the commit
\* writes the invocation's own target state, schedules nothing and leaves the
\* flag and the notifier's callback alone. The flag then stays set until the
\* next snapshot, which observes it, the state stays as committed until that
\* invocation has routed, and the routing interprets the event against it.
C15_MidHandlerNotification ==
  /\ [](MidHandler => ((n_notif >= 1) <=> (pending_hpd_evt = 1)))
  /\ [][/\ (pc'.notifier # pc.notifier) =>
             UNCHANGED <<state, edid_reads, w_pending, cur_hpd, tgt_state,
                         status, calls>>
               /\ pc'.worker = pc.worker
               /\ resched_time'.worker = resched_time.worker
        /\ (CommitStep /\ n_notif >= 1) =>
             /\ state' = tgt_state
             /\ pc'.worker = "idle"
             /\ UNCHANGED <<dwork, pending_hpd_evt, lock>>
        /\ (pending_hpd_evt = 1 /\ pending_hpd_evt' = 0) =>
             /\ SnapshotStep
             /\ w_pending' = 1
        /\ (state' # state) => CommitStep
        /\ (RouteStep /\ w_pending = 1) =>
             \/ /\ state = STATE_DONE_ENABLED /\ cur_hpd
                /\ pc'.worker = "idle"
             \/ /\ pc'.worker = "set_state"
                /\ <<tgt_state', resched_time'.worker>> =
                     C11_Row(state, cur_hpd)]_vars

\* A handler that ran without the flag is about to commit DONE_ENABLED; a
\* notification has come in meanwhile and its callback is queued.
C15_Witness ==
  /\ pc.worker = "set_state"
  /\ w_pending = 0
  /\ tgt_state = STATE_DONE_ENABLED
  /\ n_notif >= 1
  /\ pending_hpd_evt = 1
  /\ pc.notifier = "idle"
  /\ dwork = QueuedNow

(* ------------------------------------------------------------------ *)
(* C16: abort on a drop during the read                               *)
(* ------------------------------------------------------------------ *)

\* C16: the CHECK_EDID handler that finds the line de-asserted, whatever the
\* retry counter (0 .. 4), calls disable() once and neither edid_read nor
\* edid_ready, leaves edid_reads as it was, and hands set_hpd_state
\* DONE_DISABLED with delay -1; the commit writes DONE_DISABLED, and with the
\* flag clear sched_hpd_work schedules no callback.
C16_AbortOnDrop ==
  /\ [](pc.worker = "w_route" /\ state = STATE_CHECK_EDID =>
          edid_reads \in 0 .. (MAX_EDID_READ_ATTEMPTS - 1))
  /\ [][/\ (HandlerStep(STATE_CHECK_EDID) /\ ~hpd) =>
             /\ pc'.worker = "set_state"
             /\ tgt_state' = STATE_DONE_DISABLED
             /\ resched_time'.worker = -1
             /\ calls'.disable = 1
             /\ calls'.edid_read = 0
             /\ calls'.edid_ready = 0
             /\ calls'.get_hpd_state = 2
             /\ last_out' = "disable"
             /\ att_reads' = att_reads
             /\ edid_reads' = edid_reads
        /\ (CommitStep /\ state = STATE_CHECK_EDID /\ w_pending = 0
              /\ calls.edid_read = 0) =>
             /\ state' = STATE_DONE_DISABLED
             /\ calls.disable = 1
             /\ calls.edid_ready = 0
             /\ resched_time.worker = -1
             /\ edid_reads' = edid_reads
             /\ dwork' = dwork
             /\ pc'.worker = IF pending_hpd_evt = 0
                             THEN "sched_cancel" ELSE "idle"
        /\ (pc.worker = "sched_test" /\ pc'.worker # "sched_test"
              /\ state = STATE_DONE_DISABLED) =>
             /\ pc'.worker = "idle"
             /\ dwork' = DworkIdle]_vars

\* The fifth attempt (edid_reads = 4) found the line de-asserted: disable() was
\* called, no read was made, DONE_DISABLED is about to be committed.
C16_Witness ==
  /\ pc.worker = "set_state"
  /\ state = STATE_CHECK_EDID
  /\ tgt_state = STATE_DONE_DISABLED
  /\ edid_reads = MAX_EDID_READ_ATTEMPTS - 1
  /\ att_reads = MAX_EDID_READ_ATTEMPTS - 1
  /\ calls.disable = 1
  /\ calls.edid_read = 0

(* ------------------------------------------------------------------ *)
(* C17: the outcomes of the RECHECK_EDID handler                      *)
(* ------------------------------------------------------------------ *)

\* C17: the RECHECK_EDID handler calls edid_recheck once and, by its result:
\* 0 - hands set_hpd_state DONE_ENABLED with delay -1, calling neither
\* disable() nor edid_ready() and leaving edid_reads alone; -1 - increments
\* edid_reads and retries RECHECK_EDID after 60 ms if the new count is below 5,
\* else goes to HPD_RESET with delay 0; 1 - goes to HPD_RESET with delay 0
\* leaving edid_reads alone. In no case does the handler call disable(),
\* edid_read or edid_ready, and the commit writes the chosen state.
C17_RecheckOutcomes ==
  /\ [](pc.worker = "w_route" /\ state = STATE_RECHECK_EDID =>
          edid_reads \in 0 .. (MAX_EDID_READ_ATTEMPTS - 1))
  /\ [][/\ HandlerStep(STATE_RECHECK_EDID) =>
             /\ pc'.worker = "set_state"
             /\ calls'.edid_recheck = 1
             /\ calls'.disable = 0
             /\ calls'.edid_read = 0
             /\ calls'.edid_ready = 0
             /\ calls'.get_hpd_state = 1
             /\ last_out' = last_out
             /\ ever_disabled' = ever_disabled
             /\ status' \in {-1, 0, 1}
             /\ (status' = 0) =>
                  /\ tgt_state' = STATE_DONE_ENABLED
                  /\ resched_time'.worker = -1
                  /\ edid_reads' = edid_reads
             /\ (status' = -1) =>
                  /\ edid_reads' = edid_reads + 1
                  /\ IF edid_reads' < MAX_EDID_READ_ATTEMPTS
                     THEN /\ tgt_state' = STATE_RECHECK_EDID
                          /\ resched_time'.worker = CHECK_EDID_DELAY_MS
                     ELSE /\ tgt_state' = STATE_HPD_RESET
                          /\ resched_time'.worker = 0
             /\ (status' = 1) =>
                  /\ tgt_state' = STATE_HPD_RESET
                  /\ resched_time'.worker = 0
                  /\ edid_reads' = edid_reads
        /\ (CommitStep /\ state = STATE_RECHECK_EDID /\ w_pending = 0) =>
             /\ state' = tgt_state
             /\ calls.disable = 0
             /\ (status = 0) =>
                  /\ state' = STATE_DONE_ENABLED
                  /\ resched_time.worker = -1
                  /\ pending_hpd_evt = 0 => pc'.worker = "sched_cancel"]_vars

\* The fifth recheck in a row failed: the handler counted it and is about to
\* commit HPD_RESET with delay 0, without having called disable().
C17_Witness ==
  /\ pc.worker = "set_state"
  /\ state = STATE_RECHECK_EDID
  /\ w_pending = 0
  /\ status = -1
  /\ edid_reads = MAX_EDID_READ_ATTEMPTS
  /\ tgt_state = STATE_HPD_RESET
  /\ resched_time.worker = 0
  /\ calls.edid_recheck = 1
  /\ calls.disable = 0

(* ------------------------------------------------------------------ *)
(* C18: quiescence                                                    *)
(* ------------------------------------------------------------------ *)

\* The machine rests: a steady state, no invocation running, the flag clear
\* and no callback scheduled.
Quiescent ==
  /\ state \in SteadyStates
  /\ pc.worker = "idle"
  /\ pending_hpd_evt = 0
  /\ dwork.st = "idle"

\* A measure of the self-driven transitions: what a per-state handler hands
\* to set_hpd_state lies strictly below the state it ran in.
Rank(s, er) ==
  CASE s = STATE_WAIT_FOR_HPD_REASSERT -> 6 * MAX_EDID_READ_ATTEMPTS
    [] s = STATE_RECHECK_EDID -> 5 * MAX_EDID_READ_ATTEMPTS - er
    [] s = STATE_HPD_RESET -> 3 * MAX_EDID_READ_ATTEMPTS
    [] s = STATE_PLUG -> 2 * MAX_EDID_READ_ATTEMPTS + 1
    [] s = STATE_CHECK_EDID -> 2 * MAX_EDID_READ_ATTEMPTS - er
    [] OTHER -> 0

\* C18: with hpd_shutdown never called and under fair execution, if from
\* some point on no hpd_set_pending_evt call is in progress (no further
\* notification), the machine eventually rests for good in DONE_ENABLED,
\* DONE_DISABLED or INIT_FROM_BOOTLOADER with the worker idle, the flag clear
\* and no callback scheduled. The self-driven transitions have no cycle but
\* the retry loops bounded by edid_reads: every per-state handler run lowers
\* Rank.
C18_Quiescence ==
  /\ (<>[](pc.notifier = "idle")) => <>[]Quiescent
  /\ [][\A s \in States \ SteadyStates : HandlerStep(s) =>
          /\ pc'.worker = "set_state"
          /\ Rank(tgt_state', edid_reads') < Rank(s, edid_reads)]_vars

\* The machine has run by itself to rest in DONE_DISABLED, the output torn
\* down, nothing scheduled and no notification in progress.
C18_Witness ==
  /\ Quiescent
  /\ state = STATE_DONE_DISABLED
  /\ last_out = "disable"
  /\ pc.notifier = "idle"
  /\ edid_reads = MAX_EDID_READ_ATTEMPTS

(* ------------------------------------------------------------------ *)
(* C19: convergence to the signal                                     *)
(* ------------------------------------------------------------------ *)

\* The line has settled de-asserted, its last change was followed by a
\* notification, and no hpd_set_pending_evt call is in progress.
SettledLow ==
  /\ ~hpd
  /\ ~unnotified
  /\ pc.notifier = "idle"

\* C19: with hpd_shutdown never called and under fair execution, if at least
\* one notification is issued, the line changes finitely often, every change
\* is followed by a notification and the final level is de-asserted, then the
\* machine eventually is in DONE_DISABLED, at rest, and stays there: it does
\* not come to rest in DONE_ENABLED, WAIT_FOR_HPD_REASSERT or
\* INIT_FROM_BOOTLOADER, whatever the interleaving.
C19_Convergence ==
  ((<>(pending_hpd_evt = 1)) /\ <>[]SettledLow) =>
    <>[](Quiescent /\ state = STATE_DONE_DISABLED /\ last_out = "disable")

\* A drop while the output was up, notified after it happened, has brought the
\* machine through the grace window and the reset down to DONE_DISABLED.
C19_Witness ==
  /\ Quiescent
  /\ state = STATE_DONE_DISABLED
  /\ SettledLow
  /\ last_out = "disable"
  /\ att_reads = 1
  /\ ever_disabled

(* ------------------------------------------------------------------ *)
(* C20: the collaborator's view matches the state                     *)
(* ------------------------------------------------------------------ *)

\* C20: whenever the state is DONE_ENABLED the latest call among disable()
\* and edid_ready() was edid_ready(); whenever it is DONE_DISABLED the latest
\* was disable(); and edid_ready() is never called when the latest of the two
\* calls was already edid_ready(), that is, never twice without a disable()
\* in between.
C20_CollaboratorView ==
  /\ [](/\ state = STATE_DONE_ENABLED => last_out = "edid_ready"
        /\ state = STATE_DONE_DISABLED => last_out = "disable")
  /\ [][/\ (calls'.edid_ready > calls.edid_ready) =>
             /\ last_out # "edid_ready"
             /\ last_out' = "edid_ready"
             /\ calls'.edid_ready = 1
             /\ HandlerStep(STATE_CHECK_EDID)
        /\ (calls'.disable > calls.disable) =>
             /\ last_out' = "disable"
             /\ calls'.disable = 1
        /\ (last_out' # last_out) =>
             \/ calls'.edid_ready > calls.edid_ready
             \/ calls'.disable > calls.disable]_vars

\* The output is up for the second time: edid_ready() was called again after
\* a teardown, and the machine rests in DONE_ENABLED.
C20_Witness ==
  /\ state = STATE_DONE_ENABLED
  /\ pc.worker = "idle"
  /\ last_out = "edid_ready"
  /\ ever_disabled
  /\ dwork = DworkIdle

(* ------------------------------------------------------------------ *)
(* C21: no wake-up without the flag in a state without a handler      *)
(* ------------------------------------------------------------------ *)

\* C21 as stated: an invocation whose snapshot found the flag clear never
\* finds the state to be DONE_DISABLED, DONE_ENABLED or INIT_FROM_BOOTLOADER
\* when it dispatches, so the NULL == func branch of hpd_worker is not taken.
C21_Original ==
  ~(/\ pc.worker = "w_route"
    /\ w_pending = 0
    /\ state \in SteadyStates)

\* What does hold: the NULL == func branch is taken in DONE_ENABLED only (the
\* callback a bounce left queued), never in DONE_DISABLED or
\* INIT_FROM_BOOTLOADER.
NullHandlerOnlyInDoneEnabled ==
  (pc.worker = "w_route" /\ w_pending = 0 /\ state \in SteadyStates) =>
    state = STATE_DONE_ENABLED

====
